---- MODULE Spec2Model ----
(***************************************************************************)
(* A model of openssl-privsep.c: the parent process, whose threads send    *)
(* private-key requests over per-thread unix sockets, and the key daemon,  *)
(* whose workers serve them against the shared key registry.               *)
(*                                                                         *)
(* Wire data is modelled at byte level: a frame's payload is the byte      *)
(* sequence that the expbuf_push_* calls of the sender build, and the      *)
(* receiver takes it apart with the expbuf_shift_* calls.  A size_t is a   *)
(* sequence of 8 bytes, least significant first, so that SIZE_MAX and the  *)
(* int -> size_t -> int conversions of the code keep their meaning.        *)
(***************************************************************************)
EXTENDS Integers, Sequences, FiniteSets, TLC

\* ------------------------------------------------------------- bounds

\* Parent threads that use the privsep instance.
NThreads == 2
\* Requests written in one run: the operations the parent starts, and
\* the frames other clients write.
MaxOps == 3
\* Connections made by clients that are not the parent library.
MaxRaw == 1
\* Atoms pushed into a buffer in one run of the codec.
MaxAtoms == 3
\* Calls made on a buffer in one run of the buffer functions.
MaxBufOps == 4
\* System calls that EINTR interrupts in the transfer of one frame.
MaxIntr == 1

\* ---------------------------------------------------------- constants

\* sizeof(size_t) on the 64-bit build.
WordSize == 8
\* First capacity expbuf_reserve gives an empty buffer.
InitialCapacity == 4096

Threads == 1..NThreads
NConns == NThreads + MaxRaw
Conns == 1..NConns

\* ------------------------------------------------------ size_t values

RECURSIVE LEBytes(_, _)
\* The n low bytes of v >= 0, least significant first.
LEBytes(v, n) == IF n = 0 THEN <<>> ELSE <<v % 256>> \o LEBytes(v \div 256, n - 1)

\* (size_t)v for an int or size_t v: two's complement, sign-extended.
WordOf(v) ==
    IF v >= 0 THEN LEBytes(v, WordSize)
    ELSE LET m == LEBytes(-v - 1, WordSize)
         IN  [i \in 1..WordSize |-> 255 - m[i]]

SIZE_MAX == WordOf(-1)

\* Whether the word's value is below 2^31, so that it is a model integer.
IsSmall(w) == w[4] < 128 /\ \A i \in 5..WordSize : w[i] = 0

SmallVal(w) == w[1] + 256 * w[2] + 65536 * w[3] + 16777216 * w[4]

\* n < w, for a model integer n and a size_t w.
WordGreater(w, n) == ~IsSmall(w) \/ SmallVal(w) > n

\* a < b as unsigned 64-bit values.
WordLess(a, b) ==
    \E i \in 1..WordSize :
        a[i] < b[i] /\ \A j \in (i + 1)..WordSize : a[j] = b[j]

RECURSIVE AddFrom(_, _, _, _)
\* The bytes i.. of a + b, with the carry into byte i.
AddFrom(a, b, i, carry) ==
    IF i > WordSize THEN <<>>
    ELSE <<(a[i] + b[i] + carry) % 256>>
            \o AddFrom(a, b, i + 1, (a[i] + b[i] + carry) \div 256)

\* a + b modulo 2^64.
WordAdd(a, b) == AddFrom(a, b, 1, 0)

\* (int)w: the low 32 bits, two's complement.
IntOf(w) ==
    IF w[4] < 128 THEN SmallVal(w)
    ELSE ((w[1] + 256 * w[2] + 65536 * w[3] + 16777216 * (w[4] - 128))
            - 1073741824) - 1073741824

\* ------------------------------------------------------------- expbuf

\* struct expbuf_t: data holds the bytes from buf to end, start is the
\* offset of start from buf, so end - buf = Len(data); capacity is the
\* size_t of the struct.
EmptyBuf == [data |-> <<>>, start |-> 0, capacity |-> WordOf(0)]

expbuf_size(b) == Len(b.data) - b.start

\* The live region [start, end).
Live(b) == SubSeq(b.data, b.start + 1, Len(b.data))

expbuf_dispose(b) == EmptyBuf

\* buf + cap - end < extra, the comparison of expbuf_reserve in 64-bit
\* unsigned arithmetic, for the buffer b and a capacity cap.  When cap is
\* below 2^31 and not less than end - buf the difference is a model integer.
RoomLess(b, cap, extra) ==
    IF IsSmall(cap) /\ SmallVal(cap) >= Len(b.data)
    THEN WordGreater(extra, SmallVal(cap) - Len(b.data))
    ELSE WordLess(WordAdd(cap, WordOf(-Len(b.data))), extra)

RECURSIVE Doubled(_, _, _)
\* The capacity after the loop "while (buf + capacity - end < extra)
\* capacity *= 2"; <<>> when the loop never ends: the capacity has wrapped
\* to 0 and the condition still holds.
Doubled(b, cap, extra) ==
    IF RoomLess(b, cap, extra)
    THEN IF cap = WordOf(0) THEN <<>>
         ELSE Doubled(b, WordAdd(cap, cap), extra)
    ELSE cap

\* Whether expbuf_reserve returns without calling realloc.
Fits(b, extra) == ~RoomLess(b, b.capacity, extra)

\* The capacity that expbuf_reserve asks realloc for; <<>> when it never
\* gets there.
Grown(b, extra) ==
    Doubled(b, IF b.capacity = WordOf(0) THEN WordOf(InitialCapacity) ELSE b.capacity,
            extra)

\* expbuf_reserve of extra (a size_t) when it returns: realloc gave the
\* region.  The offsets of start and end from buf are kept.
expbuf_reserve(b, extra) ==
    IF Fits(b, extra) THEN b ELSE [b EXCEPT !.capacity = Grown(b, extra)]

\* v is a size_t (8 bytes).
expbuf_push_num(b, v) ==
    LET r == expbuf_reserve(b, WordOf(WordSize))
    IN  [r EXCEPT !.data = r.data \o v]

\* strlen(s): the bytes before the first NUL of s, or all of s.
RECURSIVE CStr(_)
CStr(s) == IF s = <<>> \/ Head(s) = 0 THEN <<>> ELSE <<Head(s)>> \o CStr(Tail(s))

expbuf_push_str(b, s) ==
    LET l == Len(CStr(s)) + 1
        r == expbuf_reserve(b, WordOf(l))
    IN  [r EXCEPT !.data = r.data \o CStr(s) \o <<0>>]

\* p holds at least l bytes.
expbuf_push_bytes(b, p, l) ==
    LET n == expbuf_push_num(b, WordOf(l))
        r == expbuf_reserve(n, WordOf(l))
    IN  [r EXCEPT !.data = r.data \o SubSeq(p, 1, l)]

\* Each shift returns [ok, v, buf]: buf is the buffer after the call.
expbuf_shift_num(b) ==
    IF expbuf_size(b) < WordSize
    THEN [ok |-> FALSE, v |-> <<>>, buf |-> b]
    ELSE [ok |-> TRUE,
          v |-> SubSeq(b.data, b.start + 1, b.start + WordSize),
          buf |-> [b EXCEPT !.start = b.start + WordSize]]

\* memchr(start, 0, size): the offset from start of the first NUL, or -1.
NulOffset(b) ==
    LET P == {i \in 1..expbuf_size(b) : b.data[b.start + i] = 0}
    IN  IF P = {} THEN -1 ELSE (CHOOSE i \in P : \A j \in P : i <= j) - 1

\* A shift_str that leaves start at the NUL.
expbuf_shift_str_at_nul(b) ==
    LET nul == NulOffset(b)
    IN  IF nul = -1
        THEN [ok |-> FALSE, v |-> <<>>, buf |-> b]
        ELSE [ok |-> TRUE,
              v |-> SubSeq(b.data, b.start + 1, b.start + nul),
              buf |-> [b EXCEPT !.start = b.start + nul]]

expbuf_shift_str(b) ==
    LET nul == NulOffset(b)
    IN  IF nul = -1
        THEN [ok |-> FALSE, v |-> <<>>, buf |-> b]
        ELSE [ok |-> TRUE,
              v |-> SubSeq(b.data, b.start + 1, b.start + nul),
              buf |-> [b EXCEPT !.start = b.start + nul + 1]]

\* l is the length word read, also when the call fails after reading it.
expbuf_shift_bytes(b) ==
    LET n == expbuf_shift_num(b)
    IN  IF ~n.ok
        THEN [ok |-> FALSE, v |-> <<>>, l |-> <<>>, buf |-> n.buf]
        ELSE IF WordGreater(n.v, expbuf_size(n.buf))
        THEN [ok |-> FALSE, v |-> <<>>, l |-> n.v, buf |-> n.buf]
        ELSE [ok |-> TRUE,
              v |-> SubSeq(n.buf.data, n.buf.start + 1, n.buf.start + SmallVal(n.v)),
              l |-> n.v,
              buf |-> [n.buf EXCEPT !.start = n.buf.start + SmallVal(n.v)]]

\* expbuf_read into b of a frame whose payload is the byte sequence p.
expbuf_read(b, p) ==
    LET r == expbuf_reserve(b, WordOf(Len(p)))
    IN  [r EXCEPT !.data = r.data \o p]

\* -------------------------------------------------------------- text

CmdPrivEnc == <<112, 114, 105, 118, 95, 101, 110, 99>>          \* "priv_enc"
CmdPrivDec == <<112, 114, 105, 118, 95, 100, 101, 99>>          \* "priv_dec"
CmdSign    == <<115, 105, 103, 110>>                            \* "sign"
CmdLoadKey == <<108, 111, 97, 100, 95, 107, 101, 121>>          \* "load_key"

\* strerror(ENOENT), as strerror_r writes it into errbuf.
StrNoEnt ==
    <<78, 111, 32, 115, 117, 99, 104, 32, 102, 105, 108, 101, 32, 111, 114,
      32, 100, 105, 114, 101, 99, 116, 111, 114, 121>>
\* "failed to parse the private key"
StrBadPem ==
    <<102, 97, 105, 108, 101, 100, 32, 116, 111, 32, 112, 97, 114, 115, 101,
      32, 116, 104, 101, 32, 112, 114, 105, 118, 97, 116, 101, 32, 107, 101,
      121>>
\* "SSL_CTX_use_PrivateKey failed"
StrCtxFailed ==
    <<83, 83, 76, 95, 67, 84, 88, 95, 117, 115, 101, 95, 80, 114, 105, 118,
      97, 116, 101, 75, 101, 121, 32, 102, 97, 105, 108, 101, 100>>

\* ------------------------------------------- the file system and OpenSSL
\* The key files and the RSA primitives are outside the repository.  The
\* model takes a small file system and toy primitives that keep what the
\* code relies on: a primitive is a function of the key and its input, the
\* three primitives differ, private encrypt returns RSA_size(key) or -1,
\* private decrypt returns the plaintext length or -1, sign returns 1 or 0.

PathKey1    == <<97>>      \* "a": PEM file of key 1
PathKey2    == <<98>>      \* "b": PEM file of key 2
PathBadPem  == <<99>>      \* "c": a file that is no PEM key
PathMissing == <<100>>     \* "d": no such file

KeyIds == {1, 2}
\* A null RSA pointer.
NoKey == 0

\* fopen(fn, "rt") != NULL
FileExists(fn) == fn \in {PathKey1, PathKey2, PathBadPem}

\* PEM_read_RSAPrivateKey: the key of the file, or NULL.
PEM_read_RSAPrivateKey(fn) ==
    IF fn = PathKey1 THEN 1 ELSE IF fn = PathKey2 THEN 2 ELSE NoKey

\* rsa->e and rsa->n of a key.
PublicE(k) == 65537
PublicN(k) == IF k = 1 THEN 197 ELSE 3599

RSA_size(k) == k + 1

RSA_PKCS1_PADDING == 1
RSA_NO_PADDING == 3
NID_md5 == 4

HexDigit(d) == IF d < 10 THEN 48 + d ELSE 55 + d

RECURSIVE HexOfBytes(_)
\* Two uppercase hex digits per byte, the most significant byte first.
HexOfBytes(v) ==
    IF v = 0 THEN <<>>
    ELSE HexOfBytes(v \div 256) \o <<HexDigit((v % 256) \div 16), HexDigit(v % 16)>>

\* BN_bn2hex of a non-negative number.
BN_bn2hex(v) == IF v = 0 THEN <<48>> ELSE HexOfBytes(v)

\* The value of a hex digit character, or -1.
HexValue(c) ==
    IF c \in 48..57 THEN c - 48
    ELSE IF c \in 65..70 THEN c - 55
    ELSE IF c \in 97..102 THEN c - 87
    ELSE -1

RECURSIVE HexPrefix(_, _)
\* The value of the leading hex digits of s, from the value acc so far.
HexPrefix(s, acc) ==
    IF s = <<>> \/ HexValue(Head(s)) = -1 THEN acc
    ELSE HexPrefix(Tail(s), acc * 16 + HexValue(Head(s)))

\* BN_hex2bn: [n, v], n = 0 when s starts with no hex digit.
BN_hex2bn(s) ==
    IF s = <<>> \/ HexValue(Head(s)) = -1
    THEN [n |-> 0, v |-> 0]
    ELSE [n |-> 1, v |-> HexPrefix(s, 0)]

\* The toy permutation of key k on one byte, and its inverse.
KeyMap(k, x) == (x + 17 * k) % 256
KeyUnmap(k, x) == (x + 256 - 17 * k) % 256

\* The toy padding takes 1 byte (PKCS#1 v1.5 takes 11).
PadOverhead == 1

\* RSA_private_encrypt: [ret, to].
RSA_private_encrypt(flen, from, k, padding) ==
    LET size == RSA_size(k)
        padded ==
            IF padding = RSA_PKCS1_PADDING
            THEN [i \in 1..(size - flen - 1) |-> 255] \o <<0>> \o SubSeq(from, 1, flen)
            ELSE SubSeq(from, 1, flen)
        fits ==
            \/ padding = RSA_PKCS1_PADDING /\ flen >= 0 /\ flen <= size - PadOverhead
            \/ padding = RSA_NO_PADDING /\ flen = size
    IN  IF fits
        THEN [ret |-> size, to |-> [i \in 1..size |-> KeyMap(k, padded[i])]]
        ELSE [ret |-> -1, to |-> <<>>]

RECURSIVE Unpad(_)
\* The bytes after the leading 255s and the 0 that ends them; <<-1>> when
\* the padding is bad.
Unpad(s) ==
    IF s = <<>> THEN <<-1>>
    ELSE IF Head(s) = 0 THEN Tail(s)
    ELSE IF Head(s) = 255 THEN Unpad(Tail(s))
    ELSE <<-1>>

\* RSA_private_decrypt: [ret, to].
RSA_private_decrypt(flen, from, k, padding) ==
    LET size == RSA_size(k)
        plain == [i \in 1..size |-> KeyUnmap(k, from[i])]
        out == IF padding = RSA_PKCS1_PADDING THEN Unpad(plain) ELSE plain
    IN  IF flen # size \/ padding \notin {RSA_PKCS1_PADDING, RSA_NO_PADDING}
           \/ out = <<-1>>
        THEN [ret |-> -1, to |-> <<>>]
        ELSE [ret |-> Len(out), to |-> out]

RECURSIVE ByteSum(_)
ByteSum(s) == IF s = <<>> THEN 0 ELSE (Head(s) + ByteSum(Tail(s))) % 256

\* RSA_sign: [ret, sig, siglen]; siglen is left as it was on failure.
RSA_sign(type, m, m_len, siglen0, k) ==
    IF type = NID_md5 /\ m_len <= RSA_size(k)
    THEN [ret |-> 1,
          sig |-> [i \in 1..RSA_size(k) |->
                      KeyMap(k, (type + ByteSum(SubSeq(m, 1, m_len)) + i) % 256)],
          siglen |-> RSA_size(k)]
    ELSE [ret |-> 0, sig |-> <<>>, siglen |-> siglen0]

\* ------------------------------------------------------- key registry
\* daemon_rsa_keys: keys is the table, its length is daemon_rsa_keys.size.
\* Both functions run under daemon_rsa_keys.lock, so each is one step.

\* A pointer whose use faults (SIGSEGV).
WildKey == -1

\* A lookup that reads slot 0 whatever the index.
daemon_get_rsa_first(keys, key_index) ==
    IF keys = <<>> THEN {WildKey, NoKey} ELSE {keys[1]}

\* daemon_get_rsa: the set of values keys[key_index] can read.  The slot is
\* read without a comparison with size; a read outside the table is
\* undefined: it faults, reads a null pointer, or reads a value that
\* happens to be a pointer to a registered key.
daemon_get_rsa(keys, key_index) ==
    IF IsSmall(key_index) /\ SmallVal(key_index) < Len(keys)
    THEN {keys[SmallVal(key_index) + 1]}
    ELSE {WildKey, NoKey} \cup {keys[i] : i \in 1..Len(keys)}

\* index = ++size in place of index = size++.
daemon_set_rsa_preincrement(keys, rsa) ==
    [keys |-> Append(keys, rsa), index |-> WordOf(Len(keys) + 1)]

\* daemon_set_rsa: [keys, index], index = size++ and keys[index] = rsa.
daemon_set_rsa(keys, rsa) ==
    [keys |-> Append(keys, rsa), index |-> WordOf(Len(keys))]

\* ----------------------------------------------------- daemon handlers
\* A handler's outcome is [kind, buf, keys, prim, lookup]:
\*   kind    "ok" (returned 0, buf holds the response), "fail" (returned -1)
\*           or "crash" (the daemon process died of a fault);
\*   keys    the registry after the call;
\*   prim    the primitive that was invoked, "" when none was;
\*   lookup  <<key_index>> when daemon_get_rsa was called, else <<>>.
\* A handler with an undefined read has several outcomes.

Outcome(kind, buf, keys, prim, lookup) ==
    [kind |-> kind, buf |-> buf, keys |-> keys, prim |-> prim, lookup |-> lookup]

\* The first l bytes of the 4096-byte scratch array that holds out: the
\* bytes after out were never written, fill stands for what they hold.
Scratch(out, l, fill) == [i \in 1..l |-> IF i <= Len(out) THEN out[i] ELSE fill]

\* What a never-written byte may hold.
FillBytes == {0, 255}

priv_encdec_stub(name, func, buf, keys) ==
    LET f == expbuf_shift_bytes(buf)
        k == expbuf_shift_num(f.buf)
        p == expbuf_shift_num(k.buf)
    IN  IF ~f.ok THEN {Outcome("fail", f.buf, keys, "", <<>>)}
        ELSE IF ~k.ok THEN {Outcome("fail", k.buf, keys, "", <<>>)}
        ELSE IF ~p.ok THEN {Outcome("fail", p.buf, keys, "", <<>>)}
        ELSE UNION {
            IF rsa = WildKey THEN {Outcome("crash", p.buf, keys, "", <<k.v>>)}
            ELSE IF rsa = NoKey THEN {Outcome("fail", p.buf, keys, "", <<k.v>>)}
            ELSE LET r == RSA_private_encrypt(IntOf(f.l), f.v, rsa, IntOf(p.v))
                     tolen == IF r.ret = 1 THEN SmallVal(f.l) ELSE 0
                 IN  {Outcome("ok",
                         expbuf_push_bytes(
                             expbuf_push_num(expbuf_dispose(p.buf), WordOf(r.ret)),
                             Scratch(r.to, tolen, fill), tolen),
                         keys, "RSA_private_encrypt", <<k.v>>)
                      : fill \in FillBytes}
            : rsa \in daemon_get_rsa(keys, k.v)}

priv_enc_stub(buf, keys) == priv_encdec_stub("priv_enc_stub", "RSA_private_encrypt", buf, keys)

priv_dec_stub(buf, keys) == priv_encdec_stub("priv_dec_stub", "RSA_private_decrypt", buf, keys)

sign_stub(buf, keys) ==
    LET t == expbuf_shift_num(buf)
        m == expbuf_shift_bytes(t.buf)
        k == expbuf_shift_num(m.buf)
    IN  IF ~t.ok THEN {Outcome("fail", t.buf, keys, "", <<>>)}
        ELSE IF ~m.ok THEN {Outcome("fail", m.buf, keys, "", <<>>)}
        ELSE IF ~k.ok THEN {Outcome("fail", k.buf, keys, "", <<>>)}
        ELSE UNION {
            IF rsa = WildKey THEN {Outcome("crash", k.buf, keys, "", <<k.v>>)}
            ELSE IF rsa = NoKey THEN {Outcome("fail", k.buf, keys, "", <<k.v>>)}
            ELSE LET r == RSA_sign(IntOf(t.v), m.v, SmallVal(m.l), 0, rsa)
                     siglen == IF r.ret = 1 THEN r.siglen ELSE 0
                 IN  {Outcome("ok",
                         expbuf_push_bytes(
                             expbuf_push_num(expbuf_dispose(k.buf), WordOf(r.ret)),
                             Scratch(r.sig, siglen, fill), siglen),
                         keys, "RSA_sign", <<k.v>>)
                      : fill \in FillBytes}
            : rsa \in daemon_get_rsa(keys, k.v)}

\* A strerror_r that returns its text without writing it into errbuf.
LoadErrorUnwritten(fp, rsa) ==
    IF ~fp THEN <<>> ELSE IF rsa = NoKey THEN StrBadPem ELSE <<>>

\* load_key_stub, lines 552-566: errbuf at Respond.  fp is whether fopen
\* succeeded, rsa the key that was read.
LoadError(fp, rsa) ==
    IF ~fp THEN StrNoEnt ELSE IF rsa = NoKey THEN StrBadPem ELSE <<>>

load_key_stub(buf, keys) ==
    LET fn == expbuf_shift_str(buf)
        fp == fn.ok /\ FileExists(fn.v)
        rsa == IF fp THEN PEM_read_RSAPrivateKey(fn.v) ELSE NoKey
        errbuf == LoadError(fp, rsa)
        set == daemon_set_rsa(keys, rsa)
        key_index == IF rsa # NoKey THEN set.index ELSE SIZE_MAX
        estr == IF rsa # NoKey THEN BN_bn2hex(PublicE(rsa)) ELSE <<>>
        nstr == IF rsa # NoKey THEN BN_bn2hex(PublicN(rsa)) ELSE <<>>
        b1 == expbuf_push_num(expbuf_dispose(fn.buf), WordOf(IF rsa # NoKey THEN 1 ELSE 0))
        b2 == expbuf_push_num(b1, key_index)
        b3 == expbuf_push_str(b2, estr)
        b4 == expbuf_push_str(b3, nstr)
        b5 == expbuf_push_str(b4, errbuf)
    IN  IF ~fn.ok THEN {Outcome("fail", fn.buf, keys, "", <<>>)}
        ELSE {Outcome("ok", b5, IF rsa # NoKey THEN set.keys ELSE keys, "", <<>>)}

\* The dispatch without the break after "unknown command": the worker goes
\* on to expbuf_write what is left in the buffer.
DispatchNoBreak(p, keys) ==
    LET buf == expbuf_read(EmptyBuf, p)
        cmd == expbuf_shift_str(buf)
    IN  IF ~cmd.ok THEN {Outcome("fail", cmd.buf, keys, "", <<>>)}
        ELSE IF cmd.v = CmdPrivEnc THEN priv_enc_stub(cmd.buf, keys)
        ELSE IF cmd.v = CmdPrivDec THEN priv_dec_stub(cmd.buf, keys)
        ELSE IF cmd.v = CmdSign THEN sign_stub(cmd.buf, keys)
        ELSE IF cmd.v = CmdLoadKey THEN load_key_stub(cmd.buf, keys)
        ELSE {Outcome("ok", cmd.buf, keys, "", <<>>)}

\* One turn of the loop of daemon_conn_thread on the frame whose payload is
\* p: the outcomes of the dispatch.  An "ok" outcome is followed by
\* expbuf_write of its buf, a "fail" outcome by the break out of the loop.
Dispatch(p, keys) ==
    LET buf == expbuf_read(EmptyBuf, p)
        cmd == expbuf_shift_str(buf)
    IN  IF ~cmd.ok THEN {Outcome("fail", cmd.buf, keys, "", <<>>)}
        ELSE IF cmd.v = CmdPrivEnc THEN priv_enc_stub(cmd.buf, keys)
        ELSE IF cmd.v = CmdPrivDec THEN priv_dec_stub(cmd.buf, keys)
        ELSE IF cmd.v = CmdSign THEN sign_stub(cmd.buf, keys)
        ELSE IF cmd.v = CmdLoadKey THEN load_key_stub(cmd.buf, keys)
        ELSE {Outcome("fail", cmd.buf, keys, "", <<>>)}

\* ------------------------------------------------------ parent proxies
\* The request payloads the proxies push, and their parse of a response.

\* priv_encdec_proxy, lines 347-350.
PrivRequest(cmd, flen, from, key_index, padding) ==
    Live(expbuf_push_num(
            expbuf_push_num(
                expbuf_push_bytes(expbuf_push_str(EmptyBuf, cmd), from, flen),
                key_index),
            WordOf(padding)))

\* priv_encdec_proxy, lines 355-364: [ok, ret, to]; ~ok is the dief.
PrivResponse(p) ==
    LET r == expbuf_shift_num(expbuf_read(EmptyBuf, p))
        t == expbuf_shift_bytes(r.buf)
    IN  IF ~r.ok \/ ~t.ok THEN [ok |-> FALSE, ret |-> 0, to |-> <<>>, buf |-> t.buf]
        ELSE [ok |-> TRUE, ret |-> IntOf(r.v), to |-> t.v,
              buf |-> expbuf_dispose(t.buf)]

\* sign_proxy, lines 428-431.
SignRequest(type, m, m_len, key_index) ==
    Live(expbuf_push_num(
            expbuf_push_bytes(
                expbuf_push_num(expbuf_push_str(EmptyBuf, CmdSign), WordOf(type)),
                m, m_len),
            key_index))

\* sign_proxy, lines 436-446: [ok, ret, sig, siglen].
SignResponse(p) ==
    LET r == expbuf_shift_num(expbuf_read(EmptyBuf, p))
        g == expbuf_shift_bytes(r.buf)
    IN  IF ~r.ok \/ ~g.ok
        THEN [ok |-> FALSE, ret |-> 0, sig |-> <<>>, siglen |-> 0, buf |-> g.buf]
        ELSE [ok |-> TRUE, ret |-> IntOf(r.v), sig |-> g.v, siglen |-> SmallVal(g.l),
              buf |-> expbuf_dispose(g.buf)]

\* openssl_privsep_load_private_key_file, lines 517-518.
LoadRequest(fn) ==
    Live(expbuf_push_str(expbuf_push_str(EmptyBuf, CmdLoadKey), fn))

\* openssl_privsep_load_private_key_file, lines 523-529.
LoadResponse(p) ==
    LET shifted(r, k, e, n, x) ==
            IF ~r.ok \/ ~k.ok \/ ~e.ok \/ ~n.ok \/ ~x.ok
            THEN [ok |-> FALSE, ret |-> <<>>, key_index |-> <<>>, estr |-> <<>>,
                  nstr |-> <<>>, errstr |-> <<>>, buf |-> x.buf]
            ELSE [ok |-> TRUE, ret |-> r.v, key_index |-> k.v, estr |-> e.v,
                  nstr |-> n.v, errstr |-> x.v, buf |-> x.buf]
        errstr(r, k, e, n) == shifted(r, k, e, n, expbuf_shift_str(n.buf))
        nstr(r, k, e) == errstr(r, k, e, expbuf_shift_str(e.buf))
        estr(r, k) == nstr(r, k, expbuf_shift_str(k.buf))
        key_index(r) == estr(r, expbuf_shift_num(r.buf))
    IN  key_index(expbuf_shift_num(expbuf_read(EmptyBuf, p)))

\* create_pkey: [ok, pkey]; ~ok is the abort on a hex string BN_hex2bn
\* rejects.  The proxy key holds the handle and the public numbers.
create_pkey(key_index, ebuf, nbuf) ==
    LET e == BN_hex2bn(ebuf)
        n == BN_hex2bn(nbuf)
    IN  [ok |-> e.n # 0 /\ n.n # 0,
         pkey |-> [key_index |-> key_index, e |-> e.v, n |-> n.v]]

\* openssl_privsep_load_private_key_file from the response on: the payload
\* p was read, accept is whether SSL_CTX_use_PrivateKey takes the key.
\* [kind, ret, errbuf, pkey, buf]: kind is "abort" (dief or abort) or
\* "return"; errbuf is <<>> when nothing was written to it; pkey is <<the
\* key>> when one was installed into the context; buf is the function's
\* buffer as it is left: no path from the read on disposes it.
LoadFinish(p, accept) ==
    LET installed(r, made) ==
            IF ~made.ok
            THEN [kind |-> "abort", ret |-> 0, errbuf |-> <<>>, pkey |-> <<>>,
                  buf |-> r.buf]
            ELSE IF ~accept
            THEN [kind |-> "return", ret |-> IntOf(WordOf(0)), errbuf |-> StrCtxFailed,
                  pkey |-> <<>>, buf |-> r.buf]
            ELSE [kind |-> "return", ret |-> IntOf(r.ret), errbuf |-> <<>>,
                  pkey |-> <<made.pkey>>, buf |-> r.buf]
        parsed(r) ==
            IF ~r.ok
            THEN [kind |-> "abort", ret |-> 0, errbuf |-> <<>>, pkey |-> <<>>,
                  buf |-> r.buf]
            ELSE IF r.ret # WordOf(1)
            THEN [kind |-> "return", ret |-> -1, errbuf |-> r.errstr, pkey |-> <<>>,
                  buf |-> r.buf]
            ELSE installed(r, create_pkey(r.key_index, r.estr, r.nstr))
    IN  parsed(LoadResponse(p))

\* -------------------------------------------------------------- state
\* Assumed of the environment: no allocation or thread creation fails, and
\* a write to a socket whose peer is closed returns EPIPE (SIGPIPE is
\* ignored), which is what the callers of expbuf_write handle.  In the
\* specifications of the whole program an expbuf_write that has sent all
\* its bytes returns 0 and an expbuf_reserve returns; what these two
\* functions do beyond that is in the specifications of one frame and of
\* one buffer.

VARIABLES
    boot,    \* what openssl_privsep_init did: [ret, pipeW, dir, sockfile, engine, stray]
    parent,  \* the parent process: "alive", "exited" or "aborted"
    daemon,  \* the daemon process: [st, code], st "none", "running", "exited", "crashed"
    watch,   \* the result of the read that ended daemon_close_notify_thread
    keys,    \* daemon_rsa_keys.keys
    conn,    \* the daemon's end of each connection
    cli,     \* the client's end of each connection
    req,     \* per connection, the request frames written and not yet read
    resp,    \* per connection, the response frames written and not yet read
    thr,     \* per parent thread: [fd, pc, arg, res]
    pkeys,   \* the proxy keys installed into a TLS context
    nops,    \* operations started
    issued,  \* the handles of the successful load_key responses, in order
    served,  \* per connection, a record of the last request dispatched
    nraw,    \* frames written by clients other than the parent
    sock,    \* per connection: [by, made, users, workers]: the thread that made
             \* the socket, how often one was made, the threads that used
             \* it, the workers started for it
    xb,      \* a buffer that is exercised alone
    heap,    \* what the regions released by xb's owner still hold
    wire,    \* a stream between an expbuf_write and an expbuf_read
    plan,    \* the inputs of a run that exercises one function
    log,     \* the results of such a run
    step     \* the position of such a run

\* The state of the parent and the daemon.
sysvars == <<boot, parent, daemon, watch, keys, conn, cli, req, resp, thr, pkeys,
             nops, issued, served, nraw, sock>>

\* The state of a run that exercises one function of the file alone.
unitvars == <<xb, heap, wire, plan, log, step>>

vars == <<boot, parent, daemon, watch, keys, conn, cli, req, resp, thr, pkeys,
          nops, issued, served, nraw, sock, xb, heap, wire, plan, log, step>>

NoBoot == [ret |-> "none", pipeR |-> FALSE, pipeW |-> FALSE, listen |-> FALSE,
           dir |-> FALSE, sockfile |-> FALSE, engine |-> FALSE, stray |-> FALSE]

NoServed == [frame |-> <<>>, kind |-> "none", prim |-> "", lookup |-> <<>>,
             size |-> 0, out |-> <<>>, failed |-> FALSE, buf |-> EmptyBuf]

NoSock == [by |-> 0, made |-> 0, users |-> {}, workers |-> 0]

NoOp == [op |-> "none"]

\* The parent before it calls openssl_privsep_init.
SysInit ==
    /\ boot = NoBoot
    /\ parent = "alive"
    /\ daemon = [st |-> "none", code |-> -1]
    /\ watch = "none"
    /\ keys = <<>>
    /\ conn = [c \in Conns |-> "none"]
    /\ cli = [c \in Conns |-> "none"]
    /\ req = [c \in Conns |-> <<>>]
    /\ resp = [c \in Conns |-> <<>>]
    /\ thr = [t \in Threads |-> [fd |-> 0, pc |-> "idle", arg |-> NoOp, res |-> NoOp]]
    /\ pkeys = {}
    /\ nops = 0
    /\ issued = <<>>
    /\ served = [c \in Conns |-> NoServed]
    /\ nraw = 0
    /\ sock = [c \in Conns |-> NoSock]

\* No function is exercised alone.
UnitOff ==
    /\ xb = EmptyBuf
    /\ heap = <<>>
    /\ wire = <<>>
    /\ plan = <<>>
    /\ log = <<>>
    /\ step = "off"

Init == SysInit /\ UnitOff

\* ---------------------------------------------------------- bootstrap

\* The calls of openssl_privsep_init that can fail, in order.  "engine" is
\* ENGINE_new, "engine_set" the ENGINE_set_* calls on the engine it made.
InitSteps ==
    <<"pipe", "strdup", "mkdtemp", "socket", "bind", "listen", "fork", "engine",
      "engine_set">>

StepIndex(s) == CHOOSE i \in 1..Len(InitSteps) : InitSteps[i] = s

\* Whether the step named s succeeded in a run that failed at failAt
\* ("none": no step failed).
Passed(s, failAt) == failAt = "none" \/ StepIndex(s) < StepIndex(failAt)

\* unlink_dir on the tempdir: the entries are unlinked; the final
\* unlink(path) names a directory, which unlink(2) refuses.
unlink_dir(b) == [b EXCEPT !.sockfile = FALSE]

\* openssl_privsep_init in the parent.  The record tells what the parent
\* holds when the call returns: the descriptors pipe_fds[0], pipe_fds[1]
\* and listen_fd that are open, the tempdir and the socket file that
\* exist, the engine, and stray: whether a descriptor that init did not
\* open was closed.  garbage is whether the never-assigned listen_fd holds
\* the number of an open descriptor when Fail reads it.
openssl_privsep_init(failAt, garbage) ==
    LET \* at the goto Fail, or at the return 0
        at == [NoBoot EXCEPT
                 !.pipeR = Passed("pipe", failAt) /\ ~Passed("fork", failAt),
                 !.pipeW = Passed("pipe", failAt),
                 !.listen = Passed("socket", failAt) /\ ~Passed("fork", failAt),
                 !.dir = Passed("mkdtemp", failAt),
                 !.sockfile = Passed("bind", failAt),
                 !.engine = Passed("engine", failAt)]
        \* listen_fd was assigned: socket() was called
        assigned == Passed("mkdtemp", failAt)
        unlinked == IF Passed("strdup", failAt) THEN unlink_dir(at) ELSE at
    IN  IF failAt = "none"
        THEN [at EXCEPT !.ret = "ok"]
        ELSE [unlinked EXCEPT !.ret = "fail",
                              !.pipeR = FALSE,
                              !.pipeW = FALSE,
                              !.listen = FALSE,
                              !.engine = FALSE,
                              !.stray = ~assigned /\ garbage]

InitCall ==
    /\ parent = "alive"
    /\ boot.ret = "none"
    /\ \E failAt \in {InitSteps[i] : i \in 1..Len(InitSteps)} \cup {"none"},
          garbage \in BOOLEAN :
          /\ boot' = openssl_privsep_init(failAt, garbage)
          /\ daemon' = IF Passed("fork", failAt)
                       THEN [st |-> "running", code |-> -1] ELSE daemon
    /\ UNCHANGED <<parent, watch, keys, conn, cli, req, resp, thr, pkeys, nops,
                   issued, served, nraw, sock>>
    /\ UNCHANGED unitvars

\* The parent process ends: exit, a signal, or the abort of dief.  All its
\* descriptors close.
ParentEnds(how) ==
    /\ parent' = how
    /\ boot' = [boot EXCEPT !.pipeW = FALSE]
    /\ cli' = [c \in Conns |-> IF c \in Threads /\ cli[c] = "open" THEN "closed" ELSE cli[c]]

ParentExit ==
    /\ parent = "alive"
    /\ ParentEnds("exited")
    /\ UNCHANGED <<daemon, watch, keys, conn, req, resp, thr, pkeys, nops,
                   issued, served, nraw, sock>>
    /\ UNCHANGED unitvars

\* ------------------------------------------------------ parent threads
\* Thread t owns connection t.  An operation is two steps: the call up to
\* the write of the request, and the rest from the read of the response;
\* the thread blocks in read(2) between them.

LoadInputs ==
    {<<PathKey1, TRUE>>, <<PathKey1, FALSE>>, <<PathKey2, TRUE>>,
     <<PathBadPem, TRUE>>, <<PathMissing, TRUE>>}

PrivInputs ==
    {[from |-> <<7>>, padding |-> RSA_PKCS1_PADDING],
     [from |-> <<7, 8, 9>>, padding |-> RSA_NO_PADDING]}

SignInputs ==
    {[type |-> NID_md5, m |-> <<1, 2>>], [type |-> 0, m |-> <<1, 2>>]}

\* Whether a write on the client end of connection c reaches the daemon.
PeerOpen(c) == daemon.st = "running" /\ conn[c] \in {"pending", "serving"}

\* The connection that a socket made by thread t is: the parent's
\* connections are numbered after the thread that makes them.
NewConn(t) == t

\* A get_thread_data that keeps one record for all threads.
get_thread_data_shared(t) ==
    IF \E u \in Threads : thr[u].fd > 0
    THEN [fd |-> thr[CHOOSE u \in Threads : thr[u].fd > 0].fd, fresh |-> FALSE]
    ELSE [fd |-> NewConn(t), fresh |-> TRUE]

\* get_thread_data of thread t: [fd, fresh].  thr[t].fd is the fd of the
\* record that pthread_getspecific returns to t, 0 when it returns NULL;
\* fresh is whether the socket is made and connected by this call.
get_thread_data(t) ==
    IF thr[t].fd # 0
    THEN [fd |-> thr[t].fd, fresh |-> FALSE]
    ELSE [fd |-> NewConn(t), fresh |-> TRUE]

\* get_thread_data followed by expbuf_write of the payload p: the thread's
\* socket is made and connected on first use; a failed connect or write
\* is a dief.
SendRequest(t, p, pc, arg) ==
    LET d == get_thread_data(t)
        connected == ~d.fresh \/ (boot.sockfile /\ daemon.st = "running")
    IN  IF connected /\ (d.fresh \/ PeerOpen(d.fd))
        THEN /\ thr' = [thr EXCEPT ![t] = [fd |-> d.fd, pc |-> pc, arg |-> arg, res |-> NoOp]]
             /\ conn' = IF d.fresh THEN [conn EXCEPT ![d.fd] = "pending"] ELSE conn
             /\ cli' = IF d.fresh THEN [cli EXCEPT ![d.fd] = "open"] ELSE cli
             /\ req' = [req EXCEPT ![d.fd] = Append(@, p)]
             /\ sock' = [sock EXCEPT ![d.fd].by = IF d.fresh THEN t ELSE @,
                                     ![d.fd].made = IF d.fresh THEN @ + 1 ELSE @,
                                     ![d.fd].users = @ \cup {t}]
             /\ UNCHANGED <<boot, parent>>
        ELSE /\ ParentEnds("aborted")
             /\ UNCHANGED <<thr, conn, req, sock>>

CanCall(t) ==
    /\ parent = "alive"
    /\ boot.ret = "ok"
    /\ thr[t].pc = "idle"
    /\ nops + nraw < MaxOps

\* Whether the read of the response by thread t returns: a frame is there,
\* or the peer is gone (end of file).
CanRead(t, pc) ==
    /\ parent = "alive"
    /\ thr[t].pc = pc
    /\ resp[thr[t].fd] # <<>> \/ ~PeerOpen(thr[t].fd)

\* A return that leaves the response in the socket.
ReturnUnread(t, res) ==
    /\ thr' = [thr EXCEPT ![t].pc = "idle", ![t].res = res]
    /\ resp' = resp
    /\ sock' = [sock EXCEPT ![thr[t].fd].users = @ \cup {t}]
    /\ UNCHANGED <<boot, parent, cli>>

\* The operation of thread t returns res after expbuf_read took the
\* response from its socket.
Return(t, res) ==
    /\ thr' = [thr EXCEPT ![t].pc = "idle", ![t].res = res]
    /\ resp' = [resp EXCEPT ![thr[t].fd] = Tail(@)]
    /\ sock' = [sock EXCEPT ![thr[t].fd].users = @ \cup {t}]
    /\ UNCHANGED <<boot, parent, cli>>

CallLoad(t) ==
    /\ CanCall(t)
    /\ \E in \in LoadInputs :
          SendRequest(t, LoadRequest(in[1]), "load",
                      [op |-> "load", fn |-> in[1], accept |-> in[2]])
    /\ nops' = nops + 1
    /\ UNCHANGED <<daemon, watch, keys, resp, pkeys, issued, served, nraw>>
    /\ UNCHANGED unitvars

RetLoad(t) ==
    /\ CanRead(t, "load")
    /\ LET f == IF resp[thr[t].fd] = <<>> THEN [kind |-> "abort"]
                ELSE LoadFinish(Head(resp[thr[t].fd]), thr[t].arg.accept)
       IN  IF f.kind = "abort"
           THEN /\ ParentEnds("aborted")
                /\ UNCHANGED <<thr, resp, pkeys, sock>>
           ELSE /\ Return(t, [op |-> "load", ret |-> f.ret, errbuf |-> f.errbuf,
                              installed |-> f.pkey # <<>>, buf |-> f.buf])
                /\ pkeys' = pkeys \cup {f.pkey[i] : i \in 1..Len(f.pkey)}
    /\ UNCHANGED <<daemon, watch, keys, conn, req, nops, issued, served, nraw>>
    /\ UNCHANGED unitvars

\* priv_enc_proxy and priv_dec_proxy on a proxy key.
CallPriv(t) ==
    /\ CanCall(t)
    /\ \E cmd \in {CmdPrivEnc, CmdPrivDec}, pk \in pkeys, in \in PrivInputs :
          SendRequest(t,
              PrivRequest(cmd, Len(in.from), in.from, pk.key_index, in.padding),
              "priv",
              [op |-> "priv", cmd |-> cmd, from |-> in.from,
               padding |-> in.padding, pkey |-> pk])
    /\ nops' = nops + 1
    /\ UNCHANGED <<daemon, watch, keys, resp, pkeys, issued, served, nraw>>
    /\ UNCHANGED unitvars

RetPriv(t) ==
    /\ CanRead(t, "priv")
    /\ LET r == IF resp[thr[t].fd] = <<>> THEN [ok |-> FALSE]
                ELSE PrivResponse(Head(resp[thr[t].fd]))
       IN  IF ~r.ok
           THEN /\ ParentEnds("aborted")
                /\ UNCHANGED <<thr, resp, sock>>
           ELSE Return(t, [op |-> "priv", ret |-> r.ret, to |-> r.to, buf |-> r.buf])
    /\ UNCHANGED <<daemon, watch, keys, conn, req, pkeys, nops, issued, served, nraw>>
    /\ UNCHANGED unitvars

CallSign(t) ==
    /\ CanCall(t)
    /\ \E pk \in pkeys, in \in SignInputs :
          SendRequest(t, SignRequest(in.type, in.m, Len(in.m), pk.key_index),
              "sign",
              [op |-> "sign", type |-> in.type, m |-> in.m, pkey |-> pk])
    /\ nops' = nops + 1
    /\ UNCHANGED <<daemon, watch, keys, resp, pkeys, issued, served, nraw>>
    /\ UNCHANGED unitvars

RetSign(t) ==
    /\ CanRead(t, "sign")
    /\ LET r == IF resp[thr[t].fd] = <<>> THEN [ok |-> FALSE]
                ELSE SignResponse(Head(resp[thr[t].fd]))
       IN  IF ~r.ok
           THEN /\ ParentEnds("aborted")
                /\ UNCHANGED <<thr, resp, sock>>
           ELSE Return(t, [op |-> "sign", ret |-> r.ret, sig |-> r.sig,
                           siglen |-> r.siglen, buf |-> r.buf])
    /\ UNCHANGED <<daemon, watch, keys, conn, req, pkeys, nops, issued, served, nraw>>
    /\ UNCHANGED unitvars

\* dispose_thread_data, the destructor of the thread key, at thread exit.
ThreadExit(t) ==
    /\ parent = "alive"
    /\ thr[t].pc = "idle"
    /\ thr[t].fd # 0
    /\ thr' = [thr EXCEPT ![t].pc = "exited", ![t].fd = -1]
    /\ cli' = [cli EXCEPT ![thr[t].fd] = "closed"]
    /\ UNCHANGED <<boot, parent, daemon, watch, keys, conn, req, resp, pkeys,
                   nops, issued, served, nraw, sock>>
    /\ UNCHANGED unitvars

\* -------------------------------------------------------------- daemon

\* daemon_main: accept a connection and start its worker.
Accept(c) ==
    /\ daemon.st = "running"
    /\ conn[c] = "pending"
    /\ conn' = [conn EXCEPT ![c] = "serving"]
    /\ sock' = [sock EXCEPT ![c].workers = @ + 1]
    /\ UNCHANGED <<boot, parent, daemon, watch, keys, cli, req, resp, thr, pkeys,
                   nops, issued, served, nraw>>
    /\ UNCHANGED unitvars

\* The handles that the response payload p of a load_key reports issued.
IssuedBy(p) ==
    LET r == LoadResponse(p)
    IN  IF r.ok /\ r.ret = WordOf(1) THEN <<r.key_index>> ELSE <<>>

IsLoadKey(p) ==
    LET cmd == expbuf_shift_str(expbuf_read(EmptyBuf, p))
    IN  cmd.ok /\ cmd.v = CmdLoadKey

\* daemon_conn_thread: one turn of the loop on a request frame.
Serve(c) ==
    /\ daemon.st = "running"
    /\ conn[c] = "serving"
    /\ req[c] # <<>>
    /\ \E o \in Dispatch(Head(req[c]), keys) :
          LET p == Live(o.buf)
              sent == o.kind = "ok" /\ cli[c] = "open"
              load == sent /\ IsLoadKey(Head(req[c]))
          IN  /\ req' = [req EXCEPT ![c] = Tail(@)]
              /\ keys' = o.keys
              /\ daemon' = IF o.kind = "crash"
                           THEN [st |-> "crashed", code |-> -1] ELSE daemon
              /\ conn' = IF sent \/ o.kind = "crash" THEN conn
                         ELSE [conn EXCEPT ![c] = "closed"]
              /\ resp' = IF sent THEN [resp EXCEPT ![c] = Append(@, p)] ELSE resp
              /\ issued' = IF load THEN issued \o IssuedBy(p) ELSE issued
              /\ served' = [served EXCEPT ![c] =
                    [frame |-> Head(req[c]), kind |-> o.kind, prim |-> o.prim,
                     lookup |-> o.lookup, size |-> Len(keys),
                     out |-> IF sent THEN p ELSE <<>>,
                     failed |-> @.failed \/ (load /\ IssuedBy(p) = <<>>),
                     buf |-> expbuf_dispose(o.buf)]]
    /\ UNCHANGED <<boot, parent, watch, cli, thr, pkeys, nops, nraw, sock>>
    /\ UNCHANGED unitvars

\* daemon_conn_thread: expbuf_read fails at the end of the client's stream.
WorkerEOF(c) ==
    /\ daemon.st = "running"
    /\ conn[c] = "serving"
    /\ req[c] = <<>>
    /\ cli[c] = "closed"
    /\ conn' = [conn EXCEPT ![c] = "closed"]
    /\ UNCHANGED <<boot, parent, daemon, watch, keys, cli, req, resp, thr, pkeys,
                   nops, issued, served, nraw, sock>>
    /\ UNCHANGED unitvars

\* Whether a process still holds the write end of the liveness pipe: the
\* parent does from init on (the child closed its copy).
WriteEndOpen == boot.pipeW

\* daemon_close_notify_thread: what read(close_notify_fd) can return.  No
\* process writes to the pipe, so no byte is ever read.
ReadResults == IF WriteEndOpen THEN {"EINTR", "error"} ELSE {"EINTR", "EOF", "error"}

\* A watcher that does not retry EINTR.
daemon_close_notify_thread_no_retry(r) == "exit"

\* daemon_close_notify_thread: "redo" or "exit" after a read that returned r.
daemon_close_notify_thread(r) == IF r = "EINTR" THEN "redo" ELSE "exit"

WatcherRead(r) ==
    /\ daemon.st = "running"
    /\ r \in ReadResults
    /\ watch' = IF daemon_close_notify_thread(r) = "exit" THEN r ELSE watch
    /\ daemon' = IF daemon_close_notify_thread(r) = "exit"
                 THEN [st |-> "exited", code |-> 0] ELSE daemon
    /\ UNCHANGED <<boot, parent, keys, conn, cli, req, resp, thr, pkeys, nops,
                   issued, served, nraw, sock>>
    /\ UNCHANGED unitvars

\* ------------------------------------------------------- other clients
\* The daemon serves whoever connects to the socket (the "TODO
\* authenticate" of get_thread_data): a client that is not the parent
\* library can write any frame.

RawConns == (NThreads + 1)..NConns

\* 2^32: a handle whose low 32 bits are those of handle 0.
TwoTo32 == <<0, 0, 0, 0, 1, 0, 0, 0>>

Handles == {WordOf(0), WordOf(1), TwoTo32, SIZE_MAX}

\* Well-formed requests, with handles that may be out of range.
HandleFrames ==
    {PrivRequest(CmdPrivEnc, 1, <<7>>, h, RSA_PKCS1_PADDING) : h \in Handles}
    \cup {SignRequest(NID_md5, <<1, 2>>, 2, h) : h \in Handles}

\* p without its last byte.
Truncated(p) == SubSeq(p, 1, Len(p) - 1)

\* Requests with no command token, an unknown command, or atoms that do
\* not parse.
MalformedFrames ==
    {<<>>,
     <<112, 114>>,
     <<98, 111, 103, 117, 115, 0>>,
     CmdPrivEnc \o <<0>>,
     CmdPrivDec \o <<0>> \o SIZE_MAX \o <<7>>,
     Truncated(PrivRequest(CmdPrivEnc, 1, <<7>>, WordOf(0), RSA_PKCS1_PADDING)),
     CmdSign \o <<0>> \o WordOf(NID_md5),
     Truncated(SignRequest(NID_md5, <<1, 2>>, 2, WordOf(0))),
     CmdLoadKey \o <<0>> \o PathKey1}

RawFrames == HandleFrames \cup MalformedFrames \cup {LoadRequest(PathKey1)}

RawConnect(c) ==
    /\ boot.sockfile
    /\ daemon.st = "running"
    /\ conn[c] = "none"
    /\ conn' = [conn EXCEPT ![c] = "pending"]
    /\ cli' = [cli EXCEPT ![c] = "open"]
    /\ UNCHANGED <<boot, parent, daemon, watch, keys, req, resp, thr, pkeys, nops,
                   issued, served, nraw, sock>>
    /\ UNCHANGED unitvars

RawSend(c) ==
    /\ cli[c] = "open"
    /\ PeerOpen(c)
    /\ nops + nraw < MaxOps
    /\ \E p \in RawFrames : req' = [req EXCEPT ![c] = Append(@, p)]
    /\ nraw' = nraw + 1
    /\ UNCHANGED <<boot, parent, daemon, watch, keys, conn, cli, resp, thr, pkeys,
                   nops, issued, served, sock>>
    /\ UNCHANGED unitvars

RawClose(c) ==
    /\ cli[c] = "open"
    /\ cli' = [cli EXCEPT ![c] = "closed"]
    /\ UNCHANGED <<boot, parent, daemon, watch, keys, conn, req, resp, thr, pkeys,
                   nops, issued, served, nraw, sock>>
    /\ UNCHANGED unitvars

\* ------------------------------------------------------------ the codec
\* A run of the codec alone: the atoms of plan are pushed into an empty
\* buffer, then shifted in the same order.

Nums == {WordOf(0), WordOf(300), SIZE_MAX}
Strs == {<<>>, <<97, 98>>}
\* The last blob fills the first region of a buffer: pushing it makes
\* expbuf_reserve double the capacity.
Blobs == {<<>>, <<0>>, <<7, 0, 9>>, [i \in 1..InitialCapacity |-> 1]}

Atoms ==
    {[kind |-> "num", v |-> v] : v \in Nums}
    \cup {[kind |-> "str", v |-> v] : v \in Strs}
    \cup {[kind |-> "bytes", v |-> v] : v \in Blobs}

\* expbuf_push_num, expbuf_push_str or expbuf_push_bytes of the atom a.
PushAtom(b, a) ==
    IF a.kind = "num" THEN expbuf_push_num(b, a.v)
    ELSE IF a.kind = "str" THEN expbuf_push_str(b, a.v)
    ELSE expbuf_push_bytes(b, a.v, Len(a.v))

\* The shift of an atom of the given kind: [ok, v, buf].
ShiftAtom(b, kind) ==
    LET r == IF kind = "num" THEN expbuf_shift_num(b)
             ELSE IF kind = "str" THEN expbuf_shift_str(b)
             ELSE expbuf_shift_bytes(b)
    IN  [ok |-> r.ok, v |-> r.v, buf |-> r.buf]

InitCodec ==
    /\ SysInit
    /\ xb = EmptyBuf
    /\ heap = <<>>
    /\ wire = <<>>
    /\ plan \in UNION {[1..n -> Atoms] : n \in 0..MaxAtoms}
    /\ log = [n |-> 0, got |-> <<>>]
    /\ step = "codec"

CodecPush ==
    /\ step = "codec"
    /\ log.n < Len(plan)
    /\ xb' = PushAtom(xb, plan[log.n + 1])
    /\ log' = [log EXCEPT !.n = @ + 1]
    /\ UNCHANGED <<heap, wire, plan, step>>
    /\ UNCHANGED sysvars

CodecShift ==
    /\ step = "codec"
    /\ log.n = Len(plan)
    /\ Len(log.got) < Len(plan)
    /\ LET r == ShiftAtom(xb, plan[Len(log.got) + 1].kind)
       IN  /\ xb' = r.buf
           /\ log' = [log EXCEPT !.got = Append(@, [ok |-> r.ok, v |-> r.v])]
    /\ UNCHANGED <<heap, wire, plan, step>>
    /\ UNCHANGED sysvars

\* ----------------------------------------------------- specifications

Next ==
    \/ InitCall
    \/ ParentExit
    \/ \E t \in Threads : CallLoad(t)
    \/ \E t \in Threads : RetLoad(t)
    \/ \E t \in Threads : CallPriv(t)
    \/ \E t \in Threads : RetPriv(t)
    \/ \E t \in Threads : CallSign(t)
    \/ \E t \in Threads : RetSign(t)
    \/ \E t \in Threads : ThreadExit(t)
    \/ \E c \in Conns : Accept(c)
    \/ \E c \in Conns : Serve(c)
    \/ \E c \in Conns : WorkerEOF(c)
    \/ \E r \in {"EINTR", "EOF", "error"} : WatcherRead(r)

\* The parent and its daemon.
Spec == Init /\ [][Next]_vars

\* The watcher thread runs, and a read at the end of the pipe's stream
\* returns 0 after finitely many EINTR.
SpecFair == Spec /\ WF_vars(WatcherRead("EOF"))

\* One parent thread that loads keys and signs, the daemon, and the
\* other clients.
NextRaw ==
    \/ InitCall
    \/ ParentExit
    \/ CallLoad(1)
    \/ RetLoad(1)
    \/ CallSign(1)
    \/ RetSign(1)
    \/ \E c \in Conns : Accept(c)
    \/ \E c \in Conns : Serve(c)
    \/ \E c \in Conns : WorkerEOF(c)
    \/ \E r \in {"EINTR", "EOF", "error"} : WatcherRead(r)
    \/ \E c \in RawConns : RawConnect(c)
    \/ \E c \in RawConns : RawSend(c)
    \/ \E c \in RawConns : RawClose(c)

\* The parent, its daemon, and clients that are not the parent library.
SpecRaw == Init /\ [][NextRaw]_vars

\* ----------------------------------------------------------- one buffer
\* A run of the buffer functions on one buffer that starts zero-initialised:
\* any MaxBufOps calls of reserve, push, shift, read and dispose, in any
\* order.  Here realloc is not assumed to succeed, nor to extend in place.

\* What realloc(buf->buf, cap) can do: return NULL, extend the region in
\* place, or return another region and free the old one as it is.  A size
\* of 2^63 or more is refused; what realloc does with size 0 is up to the
\* C library: it returns NULL or a region of no bytes.
ReallocResults(b, cap) ==
    IF cap = WordOf(0) THEN {"null", "moved"}
    ELSE IF cap[WordSize] >= 128 THEN {"null"}
    ELSE IF b.capacity = WordOf(0) THEN {"null", "moved"}
    ELSE {"null", "same", "moved"}

\* expbuf_reserve with its realloc: the set of [kind, buf, left].  kind is
\* "ok" (it returned), "die" (dief) or "loop" (the while loop never ends);
\* left holds the bytes of the old region that realloc freed unscrubbed.
Reserved(b, extra) ==
    IF Fits(b, extra) THEN {[kind |-> "ok", buf |-> b, left |-> <<>>]}
    ELSE IF Grown(b, extra) = <<>>
    THEN {[kind |-> "loop", buf |-> b, left |-> <<>>]}
    ELSE {IF r = "null"
          THEN [kind |-> "die", buf |-> b, left |-> <<>>]
          ELSE [kind |-> "ok", buf |-> expbuf_reserve(b, extra),
                left |-> IF r = "moved" /\ b.data # <<>> THEN <<b.data>> ELSE <<>>]
          : r \in ReallocResults(b, Grown(b, extra))}

\* 2^63.
TwoTo63 == <<0, 0, 0, 0, 0, 0, 0, 128>>

\* Values of extra: small, more than the first region, and near the top of
\* the range of size_t.
BufExtras == {WordOf(1), WordOf(5000), TwoTo63, WordOf(-8), SIZE_MAX}

BufAtoms ==
    {[kind |-> "num", v |-> WordOf(300)],
     [kind |-> "str", v |-> <<97, 98>>],
     [kind |-> "bytes", v |-> <<7, 0, 9>>]}

\* The extra of the first expbuf_reserve in the push of the atom a.
FirstExtra(a) ==
    IF a.kind = "str" THEN WordOf(Len(a.v) + 1) ELSE WordOf(WordSize)

\* What a stream gives to expbuf_read: hdr is whether the 8 bytes of the
\* length arrive, sz the length they hold, got the payload bytes that
\* arrive before the stream ends.
BufFrames ==
    {[hdr |-> FALSE, sz |-> WordOf(0), got |-> <<>>],
     [hdr |-> TRUE, sz |-> WordOf(0), got |-> <<>>],
     [hdr |-> TRUE, sz |-> WordOf(3), got |-> <<1, 2, 3>>],
     [hdr |-> TRUE, sz |-> WordOf(3), got |-> <<1>>],
     [hdr |-> TRUE, sz |-> WordOf(5000), got |-> <<1>>],
     [hdr |-> TRUE, sz |-> WordOf(-8), got |-> <<1>>],
     [hdr |-> TRUE, sz |-> SIZE_MAX, got |-> <<1>>]}

InitBuf ==
    /\ SysInit
    /\ xb = EmptyBuf
    /\ heap = <<>>
    /\ wire = <<>>
    /\ plan = <<>>
    /\ log = [n |-> 0, op |-> "none", kind |-> "ok", extra |-> WordOf(0), ret |-> 0,
              start |-> 0, end |-> 0]
    /\ step = "buf"

\* The call op ended as kind, with the buffer b: "loop" and "dead" end the
\* run, and so does "wild": end is beyond the region, whatever the caller
\* does next is out of bounds.  The log keeps the offsets of start and end
\* from buf as they were before the call.
BufDone(op, kind, extra, ret, b, left) ==
    /\ xb' = b
    /\ heap' = heap \o left
    /\ log' = [n |-> log.n + 1, op |-> op, kind |-> kind, extra |-> extra, ret |-> ret,
               start |-> xb.start, end |-> Len(xb.data)]
    /\ step' = IF kind = "loop" THEN "loop"
               ELSE IF kind = "die" THEN "dead"
               ELSE IF WordLess(b.capacity, WordOf(Len(b.data))) THEN "wild"
               ELSE "buf"
    /\ UNCHANGED <<wire, plan>>
    /\ UNCHANGED sysvars

BufCan == step = "buf" /\ log.n < MaxBufOps

BufReserve ==
    /\ BufCan
    /\ \E extra \in BufExtras : \E o \in Reserved(xb, extra) :
          BufDone("reserve", o.kind, extra, 0, o.buf, o.left)

BufPush ==
    /\ BufCan
    /\ \E a \in BufAtoms : \E o \in Reserved(xb, FirstExtra(a)) :
          BufDone("push", o.kind, FirstExtra(a), 0,
                  IF o.kind = "ok" THEN PushAtom(o.buf, a) ELSE o.buf, o.left)

BufShift ==
    /\ BufCan
    /\ \E kind \in {"num", "str", "bytes"} :
          LET r == ShiftAtom(xb, kind)
          IN  BufDone("shift", "ok", WordOf(0), IF r.ok THEN 0 ELSE -1, r.buf, <<>>)

\* expbuf_read: the length, the reserve, the payload.
BufRead ==
    /\ BufCan
    /\ \E f \in BufFrames :
          IF ~f.hdr
          THEN BufDone("read", "ok", WordOf(0), -1, xb, <<>>)
          ELSE \E o \in Reserved(xb, f.sz) :
                  IF o.kind = "ok" /\ f.sz = WordOf(Len(f.got))
                  THEN BufDone("read", "ok", f.sz, 0, expbuf_read(o.buf, f.got), o.left)
                  ELSE BufDone("read", o.kind, f.sz, -1, o.buf, o.left)

\* expbuf_dispose: the region is cleansed over its capacity and freed.
BufDispose ==
    /\ BufCan
    /\ BufDone("dispose", "ok", WordOf(0), 0, expbuf_dispose(xb), <<>>)

NextBuf == BufReserve \/ BufPush \/ BufShift \/ BufRead \/ BufDispose

\* The buffer functions on one buffer.
SpecBuf == InitBuf /\ [][NextBuf]_vars

\* ------------------------------------------------------------ one frame
\* One expbuf_write on one end of a stream and one expbuf_read into an
\* empty buffer on the other end.  The kernel takes and gives any number
\* of bytes from 1 to what is asked, interrupts a call with EINTR, or
\* fails it.

WirePayloads == {<<>>, <<5>>, <<7, 0, 9>>}

\* After the last byte is sent the loop of lines 219-222 reads
\* vecs[2].iov_len, beyond the array of two.  What follows is not defined:
\* 1 stands for the builds where the word found there is not zero and the
\* for loop ends, 0 for the builds where the loop goes on, because the
\* word is zero or because the compiler dropped the test vecindex != 2.
StackWords == {0, 1}

InitWire ==
    /\ SysInit
    /\ \E p \in WirePayloads :
          wire = [payload |-> p,
                  vecs |-> [i \in 0..1 |-> [base |-> 0,
                                            len |-> IF i = 0 THEN WordSize ELSE Len(p)]],
                  vecindex |-> 0, seen |-> 0, sent |-> 0, wret |-> "run",
                  pipe |-> <<>>,
                  phase |-> "sz", need |-> WordSize, got |-> <<>>, rret |-> "run",
                  fault |-> FALSE, intr |-> 0]
    /\ xb = EmptyBuf
    /\ heap = <<>>
    /\ plan = <<>>
    /\ log = <<>>
    /\ step = "wire"

\* The bytes vecs[i] points to: &bufsz and buf->start.
VecBytes(w, i) ==
    SubSeq(IF i = 0 THEN WordOf(Len(w.payload)) ELSE w.payload,
           w.vecs[i].base + 1, w.vecs[i].base + w.vecs[i].len)

\* What writev(fd, vecs + vecindex, 2 - vecindex) is asked to send.
Gathered(w) ==
    IF w.vecindex = 0 THEN VecBytes(w, 0) \o VecBytes(w, 1) ELSE VecBytes(w, 1)

\* The loop of lines 219-222 after writev returned r: g is the word read
\* as vecs[2].iov_len.  The index 3 stands for every index beyond 2.  seen
\* is the highest index at which the condition of the loop read iov_len.
RECURSIVE Skip(_, _, _, _)
Skip(vecs, vecindex, r, g) ==
    IF vecindex >= 2
    THEN [vecindex |-> IF r >= g THEN 3 ELSE 2, r |-> r,
          seen |-> IF r >= g THEN 3 ELSE 2]
    ELSE IF r >= vecs[vecindex].len
    THEN Skip(vecs, vecindex + 1, r - vecs[vecindex].len, g)
    ELSE [vecindex |-> vecindex, r |-> r, seen |-> vecindex]

\* One turn of the for loop of expbuf_write after writev returned r > 0:
\* the skip, the advance within the iovec (223-226), and the test of the
\* for loop; when the loop goes on with nothing left to send, the next
\* writev is given a count of zero or less, returns 0 or -1, and
\* expbuf_write returns -1.
Written(w, r, g) ==
    LET k == Skip(w.vecs, w.vecindex, r, g)
    IN  [w EXCEPT
           !.pipe = @ \o SubSeq(Gathered(w), 1, r),
           !.vecindex = k.vecindex,
           !.seen = k.seen,
           !.sent = @ + r,
           !.vecs = IF k.r # 0
                    THEN [@ EXCEPT ![k.vecindex] =
                             [base |-> @.base + k.r, len |-> @.len - k.r]]
                    ELSE @,
           !.wret = IF k.vecindex = 2 THEN "ok"
                    ELSE IF k.vecindex > 2 THEN "fail"
                    ELSE "run"]

\* One writev of expbuf_write (211-218) and what follows it.
WireWritev ==
    /\ step = "wire"
    /\ wire.wret = "run"
    /\ \/ /\ wire.intr < MaxIntr
          /\ wire' = [wire EXCEPT !.intr = @ + 1]
       \/ wire' = [wire EXCEPT !.wret = "fail", !.fault = TRUE]
       \/ \E r \in 1..Len(Gathered(wire)) : \E g \in StackWords :
             wire' = Written(wire, r, g)
    /\ UNCHANGED <<xb, heap, plan, log, step>>
    /\ UNCHANGED sysvars

\* One read of read_nbytes (97-109) within expbuf_read (232-243): the
\* length word first, then the payload at buf->end.
WireRead ==
    /\ step = "wire"
    /\ wire.rret = "run"
    /\ \/ /\ wire.intr < MaxIntr
          /\ wire' = [wire EXCEPT !.intr = @ + 1]
          /\ xb' = xb
       \/ /\ wire' = [wire EXCEPT !.rret = "fail", !.fault = TRUE]
          /\ xb' = xb
       \/ \E r \in 1..(IF wire.need < Len(wire.pipe) THEN wire.need ELSE Len(wire.pipe)) :
             LET got == wire.got \o SubSeq(wire.pipe, 1, r)
                 rest == SubSeq(wire.pipe, r + 1, Len(wire.pipe))
             IN  IF r < wire.need
                 THEN /\ wire' = [wire EXCEPT !.pipe = rest, !.got = got, !.need = @ - r]
                      /\ xb' = xb
                 ELSE IF wire.phase = "sz" /\ SmallVal(got) # 0
                 THEN /\ wire' = [wire EXCEPT !.pipe = rest, !.got = <<>>,
                                              !.phase = "body", !.need = SmallVal(got)]
                      /\ xb' = expbuf_reserve(xb, got)
                 ELSE /\ wire' = [wire EXCEPT !.pipe = rest, !.got = <<>>,
                                              !.phase = "done", !.need = 0, !.rret = "ok"]
                      /\ xb' = expbuf_read(xb, IF wire.phase = "sz" THEN <<>> ELSE got)
    /\ UNCHANGED <<heap, plan, log, step>>
    /\ UNCHANGED sysvars

NextWire == WireWritev \/ WireRead

\* One frame through a stream.
SpecWire == InitWire /\ [][NextWire]_vars

\* ------------------------------------------------ one parent operation
\* One call of priv_enc_proxy, priv_dec_proxy, sign_proxy or
\* openssl_privsep_load_private_key_file from its expbuf_write on, with a
\* transport that can fail and a peer that can answer anything.

ProxyOps == {"priv_enc", "priv_dec", "sign", "load"}

\* A response as priv_encdec_stub and sign_stub build it.
BlobResponse ==
    Live(expbuf_push_bytes(expbuf_push_num(EmptyBuf, WordOf(3)), <<7, 0, 9>>, 3))

\* Responses as load_key_stub builds them: a key, and a failure.
KeyResponse ==
    Live(expbuf_push_str(
            expbuf_push_str(
                expbuf_push_str(
                    expbuf_push_num(expbuf_push_num(EmptyBuf, WordOf(1)), WordOf(0)),
                    <<51>>),
                <<67, 49>>),
            <<>>))

FailResponse ==
    Live(expbuf_push_str(
            expbuf_push_str(
                expbuf_push_str(
                    expbuf_push_num(expbuf_push_num(EmptyBuf, WordOf(0)), SIZE_MAX),
                    <<>>),
                <<>>),
            StrNoEnt))

\* The payloads that end before the last atom of p does.
Cuts(p) == {SubSeq(p, 1, n) : n \in 0..(Len(p) - 1)}

\* The payloads a frame can bring to the operation op: [p, good], good is
\* whether p holds the atoms that op shifts.
ProxyResponses(op) ==
    IF op = "load"
    THEN {[p |-> KeyResponse, good |-> TRUE], [p |-> FailResponse, good |-> TRUE]}
            \cup {[p |-> x, good |-> FALSE] : x \in Cuts(KeyResponse)}
    ELSE {[p |-> BlobResponse, good |-> TRUE]}
            \cup {[p |-> x, good |-> FALSE] : x \in Cuts(BlobResponse)}
            \cup {[p |-> WordOf(1) \o SIZE_MAX \o <<1>>, good |-> FALSE]}

InitProxy ==
    /\ SysInit
    /\ \E op \in ProxyOps : \E x \in ProxyResponses(op) :
       \E accept \in IF op = "load" THEN BOOLEAN ELSE {TRUE} :
          plan = [op |-> op, p |-> x.p, good |-> x.good, accept |-> accept]
    /\ log = [pc |-> "write", fault |-> "none", kind |-> "run", ret |-> 0]
    /\ xb = EmptyBuf
    /\ heap = <<>>
    /\ wire = <<>>
    /\ step = "proxy"

\* The operation that parses whatever it is given and returns.
ProxyFinishUnchecked(op, p, accept) ==
    [kind |-> "return", ret |-> 0, buf |-> expbuf_read(EmptyBuf, p)]

\* The operation op from the parse of the response payload p on:
\* [kind, ret, buf], kind is "abort" (dief) or "return".
ProxyFinish(op, p, accept) ==
    IF op = "load"
    THEN LET load(f) == [kind |-> f.kind, ret |-> f.ret, buf |-> f.buf]
         IN  load(LoadFinish(p, accept))
    ELSE LET blob(r) == [kind |-> IF r.ok THEN "return" ELSE "abort",
                         ret |-> r.ret, buf |-> r.buf]
         IN  blob(IF op = "sign" THEN SignResponse(p) ELSE PrivResponse(p))

\* expbuf_write and its test (351-353, 432-434, 519-521): the write went
\* through, or writev returned -1 or 0.
ProxyWrite ==
    /\ step = "proxy"
    /\ log.pc = "write"
    /\ \E w \in {"none", "write error", "zero write"} :
          /\ log' = IF w = "none" THEN [log EXCEPT !.pc = "read"]
                    ELSE [log EXCEPT !.pc = "done", !.fault = w, !.kind = "abort"]
          /\ xb' = expbuf_dispose(xb)
    /\ UNCHANGED <<heap, wire, plan, step>>
    /\ UNCHANGED sysvars

\* expbuf_read and the rest of the operation: the frame arrives whole, or
\* read fails, or the stream ends before the frame or within it.
ProxyRead ==
    /\ step = "proxy"
    /\ log.pc = "read"
    /\ \E ev \in {"none", "read error", "eof", "cut"} :
          IF ev # "none"
          THEN /\ log' = [log EXCEPT !.pc = "done", !.fault = ev, !.kind = "abort"]
               /\ xb' = xb
          ELSE \E f \in {ProxyFinish(plan.op, plan.p, plan.accept)} :
                  /\ log' = [pc |-> "done",
                             fault |-> IF plan.good THEN "none" ELSE "parse",
                             kind |-> f.kind, ret |-> f.ret]
                  /\ xb' = f.buf
    /\ UNCHANGED <<heap, wire, plan, step>>
    /\ UNCHANGED sysvars

NextProxy == ProxyWrite \/ ProxyRead

\* One parent-side operation.
SpecProxy == InitProxy /\ [][NextProxy]_vars

NextCodec == CodecPush \/ CodecShift

\* The codec alone.
SpecCodec == InitCodec /\ [][NextCodec]_vars

\* ------------------------------------------------------------- claims

\* The command token of a request payload.
CommandOf(p) == CStr(p)

ValidHandle(h) == IsSmall(h) /\ SmallVal(h) < Len(keys)

\* C1: the handles returned by successful load_key requests, on whatever
\* connections and in whatever interleaving, are pairwise distinct, and
\* each is an index of the registry from its return on; so is the handle of
\* every proxy key the parent made from one.
C1_HandlesDistinctAndValid ==
    /\ \A i, j \in 1..Len(issued) : i # j => issued[i] # issued[j]
    /\ \A i \in 1..Len(issued) : ValidHandle(issued[i])
    /\ \A pk \in pkeys : ValidHandle(pk.key_index)

\* Two threads loaded the same file at the same time and both were answered.
C1_Witness ==
    /\ Len(issued) = 2
    /\ thr[1].pc = "load" /\ thr[2].pc = "load"
    /\ thr[1].arg.fn = thr[2].arg.fn
    /\ resp[1] # <<>> /\ resp[2] # <<>>

\* C2: a request whose handle is out of range (index >= size when the
\* lookup ran) is rejected: the handler returns -1 for it, so the worker
\* closes that connection, and the daemon reads no slot outside the table
\* and lives on.
C2_OutOfRangeRejected ==
    \A c \in Conns :
        (served[c].lookup # <<>>
            /\ ~(IsSmall(served[c].lookup[1])
                 /\ SmallVal(served[c].lookup[1]) < served[c].size))
        => served[c].kind = "fail"

\* C3: the primitive invoked for a request is the one its command names:
\* private decrypt for priv_dec, private encrypt for priv_enc.
C3_PrimitiveNamedByCommand ==
    \A c \in Conns :
        served[c].prim # "" =>
            /\ CommandOf(served[c].frame) = CmdPrivDec
                  => served[c].prim = "RSA_private_decrypt"
            /\ CommandOf(served[c].frame) = CmdPrivEnc
                  => served[c].prim = "RSA_private_encrypt"

\* C4: in the response to a priv_enc or priv_dec request the to blob is
\* empty when ret is negative and holds exactly ret bytes otherwise.
C4_ToLengthIsRet ==
    \A c \in Conns :
        (served[c].out # <<>>
            /\ CommandOf(served[c].frame) \in {CmdPrivEnc, CmdPrivDec})
        => LET r == PrivResponse(served[c].out)
           IN  /\ r.ok
               /\ r.ret < 0 => Len(r.to) = 0
               /\ r.ret >= 0 => Len(r.to) = r.ret

\* The key whose public modulus is n, NoKey when there is none.
KeyOfModulus(n) ==
    IF \E k \in KeyIds : PublicN(k) = n
    THEN CHOOSE k \in KeyIds : PublicN(k) = n ELSE NoKey

\* C5: a sign call on a proxy key returns what RSA_sign returns on the key
\* that the load of that proxy key registered: the key with the proxy key's
\* modulus, which is the registry's key at the proxy key's handle.
C5_SignThroughProxyIsSignOfLoadedKey ==
    \A t \in Threads :
        thr[t].res.op = "sign" =>
            LET a == thr[t].arg
                k == KeyOfModulus(a.pkey.n)
                s == RSA_sign(a.type, a.m, Len(a.m), 0, k)
            IN  /\ k # NoKey
                /\ ValidHandle(a.pkey.key_index)
                /\ keys[SmallVal(a.pkey.key_index) + 1] = k
                /\ thr[t].res.ret = s.ret
                /\ thr[t].res.sig = s.sig
                /\ thr[t].res.siglen = Len(s.sig)

\* A signature was returned for the second of two different keys.
C5_Witness ==
    \E t \in Threads :
        /\ thr[t].res.op = "sign"
        /\ thr[t].res.ret = 1
        /\ thr[t].arg.pkey.key_index = WordOf(1)
        /\ keys[1] # keys[2]

\* C6: load_private_key_file returns 0 exactly when the key was loaded and
\* installed into the TLS context, and otherwise returns -1 with a message
\* in the error buffer.
C6_LoadReturnsZeroOrMinusOne ==
    \A t \in Threads :
        thr[t].res.op = "load" =>
            /\ thr[t].res.ret = 0 <=> thr[t].res.installed
            /\ ~thr[t].res.installed =>
                  thr[t].res.ret = -1 /\ thr[t].res.errbuf # <<>>

\* Requests to load a file that is missing or is no PEM key.
FailingLoads == {LoadRequest(PathMissing), LoadRequest(PathBadPem)}

\* Whether this step is the worker of c serving the request p to a client
\* that still reads.
Serves(c, p) ==
    /\ daemon.st = "running"
    /\ conn[c] = "serving"
    /\ cli[c] = "open"
    /\ req[c] # <<>>
    /\ Head(req[c]) = p
    /\ req'[c] = Tail(req[c])

C8_MalformedClosesOnlyItsConnection ==
    [][\A c \in Conns : \A p \in MalformedFrames :
          (daemon.st = "running" /\ conn[c] = "serving" /\ req[c] # <<>>
             /\ Head(req[c]) = p /\ req'[c] = Tail(req[c]))
          => /\ conn'[c] = "closed"
             /\ resp' = resp
             /\ daemon' = daemon
             /\ keys' = keys
             /\ \A d \in Conns \ {c} : conn'[d] = conn[d] /\ req'[d] = req[d]
    ]_vars

\* A malformed request closed a connection while another connection has a
\* request waiting for its worker.
C8_Witness ==
    \E c, d \in Conns :
        /\ c # d
        /\ served[c].kind = "fail"
        /\ served[c].frame \in MalformedFrames
        /\ conn[c] = "closed"
        /\ daemon.st = "running"
        /\ conn[d] = "serving"
        /\ req[d] # <<>>

\* C9: the daemon ends only by the watcher's _exit(0), after a read that
\* returned 0 (every write end closed) or an error that is not EINTR; and
\* once the parent is gone, a running daemon ends that way.
C9_WatcherEndsDaemonWithParent ==
    /\ [](daemon.st \notin {"none", "running"} =>
            /\ daemon = [st |-> "exited", code |-> 0]
            /\ watch \in {"EOF", "error"}
            /\ watch = "EOF" => ~WriteEndOpen)
    /\ [](daemon.st = "running" => watch = "none")
    /\ (parent # "alive" /\ daemon.st = "running")
           ~> (daemon = [st |-> "exited", code |-> 0])

\* The parent exited and the watcher read the end of the pipe's stream.
C9_Witness ==
    /\ parent = "exited"
    /\ daemon.st = "exited"
    /\ watch = "EOF"

\* C10: after a successful init, once the parent is dead, the system
\* eventually reaches a state in which the daemon is gone and the tempdir and
\* the socket file in it are unlinked.
C10_TempdirUnlinkedAfterParentDeath ==
    (boot.ret = "ok" /\ parent # "alive")
        ~> (daemon.st = "exited" /\ ~boot.dir /\ ~boot.sockfile)

\* The request payload that the operation described by arg writes.
RequestOf(arg) ==
    IF arg.op = "load" THEN LoadRequest(arg.fn)
    ELSE IF arg.op = "priv"
    THEN PrivRequest(arg.cmd, Len(arg.from), arg.from, arg.pkey.key_index, arg.padding)
    ELSE SignRequest(arg.type, arg.m, Len(arg.m), arg.pkey.key_index)

\* C12: on the socket of a parent thread requests and responses alternate:
\* at most one frame is in flight; a thread between operations has none;
\* a thread in an operation has its request waiting, or the worker's answer
\* to that very request; the worker writes one frame for a request it
\* takes and no other; and the thread returns on reading that answer.
C12_RequestsAndResponsesAlternate ==
    /\ [](\A t \in Threads :
            (parent = "alive" /\ thr[t].fd > 0) =>
                LET c == thr[t].fd
                IN  /\ Len(req[c]) + Len(resp[c]) <= 1
                    /\ thr[t].pc = "idle" => req[c] = <<>> /\ resp[c] = <<>>
                    /\ thr[t].pc # "idle" =>
                          \/ req[c] = <<RequestOf(thr[t].arg)>>
                          \/ /\ resp[c] = <<served[c].out>>
                             /\ served[c].kind = "ok"
                             /\ served[c].frame = RequestOf(thr[t].arg))
    /\ [][\A c \in Threads :
            /\ (parent = "alive" /\ daemon.st = "running" /\ cli[c] = "open"
                  /\ req'[c] # req[c] /\ req'[c] = <<>>)
               => resp'[c] = Append(resp[c], served'[c].out)
            /\ Len(resp'[c]) > Len(resp[c])
               => req[c] # <<>> /\ req'[c] = Tail(req[c])
                    /\ Len(resp'[c]) = Len(resp[c]) + 1
            /\ (parent' = "alive" /\ thr[c].pc \notin {"idle", "exited"}
                  /\ thr'[c].pc = "idle")
               => resp[c] = <<served[c].out>> /\ resp'[c] = <<>>
       ]_vars

\* A thread is in the third operation on its socket and the answer to its
\* third request waits to be read.
C12_Witness ==
    \E t \in Threads :
        /\ nops = 3
        /\ \A u \in Threads \ {t} : thr[u].fd = 0
        /\ thr[t].pc = "sign"
        /\ resp[thr[t].fd] # <<>>
        /\ parent = "alive"

\* C13: when openssl_privsep_init fails, at whatever step, the parent is
\* left with no descriptor that init opened, has closed no descriptor that
\* init did not open, and the tempdir, the socket file and the engine are
\* gone.
C13_FailedInitUnwinds ==
    boot.ret = "fail" =>
        /\ ~boot.pipeR /\ ~boot.pipeW /\ ~boot.listen
        /\ ~boot.stray
        /\ ~boot.dir /\ ~boot.sockfile
        /\ ~boot.engine

\* C18: when a parent-side operation returns to its caller, on whatever
\* path, and when a worker has finished a request or left its loop, the
\* buffer of that cycle is disposed: it holds no region and no byte.
C18_BuffersDisposedAtEndOfCycle ==
    /\ \A t \in Threads :
          thr[t].res.op # "none" => thr[t].res.buf = EmptyBuf
    /\ \A c \in Conns :
          served[c].kind \in {"ok", "fail"} => served[c].buf = EmptyBuf

\* C20: a parent thread makes its connection on its first operation and
\* only once; no socket is used by a thread other than the one that made
\* it; a parent connection that is served has exactly one worker; and the
\* socket of a thread that exited is closed.
C20_OneConnectionPerThread ==
    /\ \A c \in Threads :
          /\ sock[c].made <= 1
          /\ sock[c].users \subseteq {sock[c].by}
          /\ sock[c].workers <= 1
          /\ conn[c] = "serving" => sock[c].workers = 1
    /\ \A t \in Threads :
          /\ Cardinality({c \in Conns : sock[c].by = t}) <= 1
          /\ (thr[t].pc = "idle" /\ thr[t].res.op = "none")
                => \A c \in Conns : sock[c].by # t
          /\ thr[t].pc \notin {"idle", "exited"}
                => thr[t].fd > 0 /\ sock[thr[t].fd].by = t
          /\ thr[t].pc = "exited"
                => \A c \in Conns : sock[c].by = t => cli[c] = "closed"

\* Two threads have used the instance, each on its own served connection,
\* and one of them has exited.
C20_Witness ==
    \E t, u \in Threads, c, d \in Conns :
        /\ t # u /\ c # d
        /\ sock[c].by = t /\ sock[d].by = u
        /\ sock[c].users = {t} /\ sock[d].users = {u}
        /\ sock[c].workers = 1 /\ sock[d].workers = 1
        /\ thr[t].pc = "exited" /\ cli[c] = "closed"
        /\ thr[u].res.op # "none" /\ cli[d] = "open"

\* C14: atoms pushed into an empty buffer and shifted in the same order
\* with the matching shifts come back: every shift succeeds and yields the
\* value pushed, and after the last one the buffer has size 0.
C14_PushThenShiftRoundTrip ==
    step = "codec" =>
        /\ \A i \in 1..Len(log.got) :
              log.got[i].ok /\ log.got[i].v = plan[i].v
        /\ (log.n = Len(plan) /\ Len(log.got) = Len(plan))
              => expbuf_size(xb) = 0

\* A number, a string and an empty blob were pushed and shifted.
C14_Witness ==
    /\ step = "codec"
    /\ Len(plan) = 3
    /\ Len(log.got) = 3
    /\ {plan[i].kind : i \in 1..3} = {"num", "str", "bytes"}
    /\ \E i \in 1..3 : plan[i] = [kind |-> "bytes", v |-> <<>>]

\* C16: after any sequence of reserve, push, shift, read_frame and dispose
\* on a buffer that started zero-initialised, base <= start <= end <=
\* base + capacity.
C16_BufferInvariant ==
    step \in {"buf", "wild"} =>
        /\ 0 <= xb.start
        /\ xb.start <= Len(xb.data)
        /\ ~WordLess(xb.capacity, WordOf(Len(xb.data)))

\* C17: after dispose of a buffer, no region that backed its payload still
\* holds payload bytes, the regions that a reserve moved it out of
\* included.
C17_NoPayloadLeftAfterDispose ==
    (step = "buf" /\ log.op = "dispose") => heap = <<>>

\* C19: expbuf_reserve terminates for every extra, the frame lengths that
\* expbuf_read takes from the wire included, and when it returns
\* end + extra <= base + capacity.
C19_ReserveTerminatesAndFits ==
    /\ step # "loop"
    /\ (step \in {"buf", "wild"} /\ log.op = "reserve") => Fits(xb, log.extra)

\* C15: for every payload and every split of the transfer into partial
\* writes and reads, with EINTR at any point, write_frame followed by
\* read_frame into an empty buffer both return success and the reader's
\* live region is the payload.
C15_FrameRoundTrip ==
    (step = "wire" /\ ~wire.fault /\ wire.wret # "run" /\ wire.rret # "run") =>
        /\ wire.wret = "ok"
        /\ wire.rret = "ok"
        /\ Live(xb) = wire.payload

\* C11: in every parent-side operation, a write error, a zero-byte write,
\* a read error, an end of file before or within the response frame, or a
\* response whose atoms do not parse, aborts the parent: the operation
\* does not return.
C11_TransportFailureAborts ==
    (step = "proxy" /\ log.fault # "none") => log.kind = "abort"

\* A load whose response lacks its last atom has aborted.
C11_Witness ==
    /\ step = "proxy"
    /\ plan.op = "load"
    /\ log.fault = "parse"
    /\ log.kind = "abort"

\* C21: during write_frame the loop that skips drained iovecs reads no
\* element of vecs at index 2 or beyond, and write_frame returns 0 exactly
\* when the length word and the payload have both been sent whole.
C21_IovecIndexInBounds ==
    step = "wire" =>
        /\ wire.seen < 2
        /\ wire.wret = "ok" <=> wire.sent = WordSize + Len(wire.payload)

\* C22: a shift_num, shift_str or shift_bytes that reports failure leaves
\* start and end as they were before the call: nothing has been consumed.
C22_FailedShiftLeavesBuffer ==
    (step = "buf" /\ log.op = "shift" /\ log.ret = -1) =>
        /\ xb.start = log.start
        /\ Len(xb.data) = log.end

====
